---- MODULE Spec2Model ----
(***************************************************************************)
(* Model of cattbl/yelt.py: the YearEventLossTable series accessor.        *)
(*                                                                         *)
(* A pandas Series is a record                                             *)
(*   [kind, names, ldtypes, dtype, attrs, rows]                            *)
(* names: the index level names, ldtypes: the dtype of each index level,   *)
(* dtype: the dtype of the values, attrs: the Series.attrs mapping, rows:  *)
(* the rows in their stored order, each [Year, EventID, DayOfYear, Loss].  *)
(* attrs is the set of its <<key, value>> pairs.                           *)
(* Losses, attachment points and limits are integers (exact arithmetic);   *)
(* frequencies and interpolated losses are rationals [num, den], and the   *)
(* float NaN is the pair with den = 0.                                     *)
(***************************************************************************)
EXTENDS Integers, Sequences, FiniteSets, TLC

VARIABLES cand, obj, pre, call, ret

vars == <<cand, obj, pre, call, ret>>

(***************************************************************************)
(* Bounds of the model.                                                    *)
(***************************************************************************)
NYrs == 2
MaxEvent == 2
MaxDay == 2
MaxLoss == 3
MaxNeg == 1
MaxRows == 2
MaxLimit == 1
MaxXs == 1
MaxNLoss == 1
MaxRP == 3
MaxRPs == 2

(***************************************************************************)
(* Module constants, yelt.py lines 7-11.                                   *)
(***************************************************************************)
COL_YEAR == "Year"
COL_EVENT == "EventID"
COL_DAY == "DayOfYear"
COL_LOSS == "Loss"
INDEX_NAMES == <<COL_YEAR, COL_DAY, COL_EVENT>>

(***************************************************************************)
(* Values.                                                                 *)
(***************************************************************************)
None == [kind |-> "None"]

Raise(exc, msg) == [kind |-> "raise", exc |-> exc, msg |-> msg]

Range(s) == {s[i] : i \in 1..Len(s)}

Max2(a, b) == IF a >= b THEN a ELSE b

Min2(a, b) == IF a <= b THEN a ELSE b

Abs(a) == IF a < 0 THEN 0 - a ELSE a

RECURSIVE Gcd(_, _)
Gcd(a, b) == IF b = 0 THEN a ELSE Gcd(b, a % b)

\* A float: the rational num/den in lowest terms with den > 0.
Rat(n, d) ==
    LET s == IF d < 0 THEN 0 - 1 ELSE 1
        g == Gcd(Abs(n), Abs(d))
    IN  [num |-> (s * n) \div g, den |-> (s * d) \div g]

NaN == [num |-> 0, den |-> 0]

IsNaN(x) == x.den = 0

\* Comparisons of floats: every comparison with NaN is false.
RatLt(a, b) == ~IsNaN(a) /\ ~IsNaN(b) /\ a.num * b.den < b.num * a.den

RatEq(a, b) == ~IsNaN(a) /\ ~IsNaN(b) /\ a.num * b.den = b.num * a.den

RatAdd(a, b) == Rat(a.num * b.den + b.num * a.den, a.den * b.den)

RatSub(a, b) == Rat(a.num * b.den - b.num * a.den, a.den * b.den)

RatMul(a, b) == Rat(a.num * b.num, a.den * b.den)

RatDiv(a, b) == Rat(a.num * b.den, a.den * b.num)

\* Stable sort of a sequence (pandas sorts on several keys with a stable
\* lexsort); lt holds the pairs <<i, j>> of positions with s[i] ordered
\* strictly before s[j].
StableSort(s, lt) ==
    LET n == Len(s)
        pos(i) == 1 + Cardinality({j \in 1..n :
                        <<j, i>> \in lt \/ (<<i, j>> \notin lt /\ j < i)})
    IN  [p \in 1..n |-> s[CHOOSE i \in 1..n : pos(i) = p]]

\* The rows of s at the positions K, in their order (boolean indexing).
SelectRows(s, K) ==
    [p \in 1..Cardinality(K) |->
        s[CHOOSE i \in K : Cardinality({j \in K : j < i}) = p - 1]]

Key(r) == <<r.Year, r.EventID, r.DayOfYear>>

(***************************************************************************)
(* from_cols: the Series built from parallel columns.                      *)
(***************************************************************************)
from_cols(rows, n) ==
    IF \E i, j \in 1..Len(rows) : i # j /\ Key(rows[i]) = Key(rows[j])
    THEN Raise("ValueError", "You cannot have duplicate combinations")
    ELSE [kind |-> "Series",
          names |-> <<COL_YEAR, COL_EVENT, COL_DAY>>,
          ldtypes |-> <<"int64", "int64", "int64">>,
          dtype |-> "float64",
          attrs |-> {<<"n_yrs", n>>},
          rows |-> rows]

(***************************************************************************)
(* YearEventLossTable._validate                                            *)
(***************************************************************************)
attrs_keys(o) == {p[1] : p \in o.attrs}

\* YearEventLossTable.n_yrs: self._obj.attrs['n_yrs']
n_yrs(o) == (CHOOSE p \in o.attrs : p[1] = "n_yrs")[2]

is_integer_dtype(d) == d \in {"int64", "int32"}

is_numeric_dtype(d) == d \in {"int64", "int32", "float64", "bool"}

is_unique(rows) ==
    \A i, j \in 1..Len(rows) : i # j => Key(rows[i]) # Key(rows[j])

\* Index.min() and Index.max(): NaN on an empty index.
YearsMin(rows) ==
    IF rows = <<>> THEN NaN
    ELSE Rat(CHOOSE y \in {r.Year : r \in Range(rows)} :
                \A r \in Range(rows) : y <= r.Year, 1)

YearsMax(rows) ==
    IF rows = <<>> THEN NaN
    ELSE Rat(CHOOSE y \in {r.Year : r \in Range(rows)} :
                \A r \in Range(rows) : y >= r.Year, 1)

\* _validate as it would be without the check of obj.index.is_unique.
ValidateNoUnique(o) ==
    IF Len(o.names) # 3
    THEN Raise("AttributeError", "Expecting 3 index levels")
    ELSE IF ~(\A i \in 1..Len(INDEX_NAMES) : INDEX_NAMES[i] \in Range(o.names))
    THEN Raise("AttributeError", "Expecting index names")
    ELSE IF ~(\A i \in 1..Len(o.ldtypes) : is_integer_dtype(o.ldtypes[i]))
    THEN Raise("TypeError", "Indices must all be integer types")
    ELSE IF ~is_numeric_dtype(o.dtype)
    THEN Raise("TypeError", "Series should be numeric")
    ELSE IF "n_yrs" \notin attrs_keys(o)
    THEN Raise("AttributeError", "Must have 'n_yrs' in the series attrs")
    ELSE IF RatLt(YearsMin(o.rows), Rat(1, 1))
            \/ RatLt(Rat(n_yrs(o), 1), YearsMax(o.rows))
    THEN Raise("AttributeError", "Years in index are out of range 1,n_yrs")
    ELSE None

Validate(o) ==
    IF Len(o.names) # 3
    THEN Raise("AttributeError", "Expecting 3 index levels")
    ELSE IF ~(\A i \in 1..Len(INDEX_NAMES) : INDEX_NAMES[i] \in Range(o.names))
    THEN Raise("AttributeError", "Expecting index names")
    ELSE IF ~(\A i \in 1..Len(o.ldtypes) : is_integer_dtype(o.ldtypes[i]))
    THEN Raise("TypeError", "Indices must all be integer types")
    ELSE IF ~is_numeric_dtype(o.dtype)
    THEN Raise("TypeError", "Series should be numeric")
    ELSE IF "n_yrs" \notin attrs_keys(o)
    THEN Raise("AttributeError", "Must have 'n_yrs' in the series attrs")
    ELSE IF ~is_unique(o.rows)
    THEN Raise("AttributeError", "Combinations not unique")
    ELSE IF RatLt(YearsMin(o.rows), Rat(1, 1))
            \/ RatLt(Rat(n_yrs(o), 1), YearsMax(o.rows))
    THEN Raise("AttributeError", "Years in index are out of range 1,n_yrs")
    ELSE None

(***************************************************************************)
(* YearEventLossTable.apply_layer                                          *)
(***************************************************************************)
\* Series.subtract(xs): a new Series.
subtract(s, xs) ==
    [s EXCEPT !.rows = [i \in 1..Len(s.rows) |->
                          [s.rows[i] EXCEPT !.Loss = s.rows[i].Loss - xs]]]

\* Series.clip(lower=lo): a new Series.
clip_lower(s, lo) ==
    [s EXCEPT !.rows = [i \in 1..Len(s.rows) |->
                          [s.rows[i] EXCEPT !.Loss = Max2(s.rows[i].Loss, lo)]]]

\* Series.clip(upper=limit): a new Series; limit is <<>> (None) or <<v>>.
clip_upper(s, limit) ==
    IF limit = <<>> THEN s
    ELSE [s EXCEPT !.rows = [i \in 1..Len(s.rows) |->
                [s.rows[i] EXCEPT !.Loss = Min2(s.rows[i].Loss, limit[1])]]]

\* layer_losses.loc[layer_losses > 0]: a new Series.
PositiveLoss(r) == r.Loss > 0

loc_positive(s) ==
    [s EXCEPT !.rows =
        SelectRows(s.rows, {i \in 1..Len(s.rows) : PositiveLoss(s.rows[i])})]

\* Series += xs.
iadd(s, xs) ==
    [s EXCEPT !.rows = [i \in 1..Len(s.rows) |->
                          [s.rows[i] EXCEPT !.Loss = s.rows[i].Loss + xs]]]

\* The order of the index levels as stored: Year, EventID, DayOfYear.
IndexLessStored(a, b) ==
    \/ a.Year < b.Year
    \/ a.Year = b.Year /\ a.EventID < b.EventID
    \/ a.Year = b.Year /\ a.EventID = b.EventID /\ a.DayOfYear < b.DayOfYear

\* The order of INDEX_NAMES: Year, DayOfYear, EventID.
IndexLess(a, b) ==
    \/ a.Year < b.Year
    \/ a.Year = b.Year /\ a.DayOfYear < b.DayOfYear
    \/ a.Year = b.Year /\ a.DayOfYear = b.DayOfYear /\ a.EventID < b.EventID

\* sort_index(level=[COL_YEAR, COL_DAY, COL_EVENT])
sort_index(s) ==
    [s EXCEPT !.rows =
        StableSort(s.rows, {p \in (1..Len(s.rows)) \X (1..Len(s.rows)) :
                              IndexLess(s.rows[p[1]], s.rows[p[2]])})]

\* groupby(COL_YEAR).head(n): the first n rows of every year, in row order.
groupby_head(s, n) ==
    LET rs == s.rows
    IN  [s EXCEPT !.rows =
            SelectRows(rs, {i \in 1..Len(rs) :
                Cardinality({j \in 1..(i - 1) : rs[j].Year = rs[i].Year}) < n})]

\* apply_layer as it would be if every step wrote into self._obj.
apply_layer_inplace(self, limit, xs, n_loss, is_franchise) ==
    IF ~(xs >= 0) THEN [self |-> self,
                        out |-> Raise("AssertionError", "Lower loss must be >= 0")]
    ELSE
    LET h1 == <<clip_upper(clip_lower(subtract(self, xs), 0), limit)>>
        h2 == <<loc_positive(h1[1])>>
        h3 == IF is_franchise THEN <<iadd(h2[1], xs)>> ELSE h2
        h4 == IF n_loss # <<>>
              THEN <<groupby_head(sort_index(h3[1]), n_loss[1])>>
              ELSE h3
    IN  [self |-> h4[1], out |-> h4[1]]

\* apply_layer as it would be without the is_franchise branch.
apply_layer_nofranchise(self, limit, xs, n_loss, is_franchise) ==
    IF ~(xs >= 0) THEN [self |-> self,
                        out |-> Raise("AssertionError", "Lower loss must be >= 0")]
    ELSE
    LET h1 == <<self, clip_upper(clip_lower(subtract(self, xs), 0), limit)>>
        h2 == Append(h1, loc_positive(h1[2]))
        h4 == IF n_loss # <<>>
              THEN Append(h2, groupby_head(sort_index(h2[3]), n_loss[1]))
              ELSE h2
    IN  [self |-> h4[1], out |-> h4[Len(h4)]]

\* apply_layer as it would be without the filter layer_losses > 0.
apply_layer_keepzero(self, limit, xs, n_loss, is_franchise) ==
    IF ~(xs >= 0) THEN [self |-> self,
                        out |-> Raise("AssertionError", "Lower loss must be >= 0")]
    ELSE
    LET h1 == <<self, clip_upper(clip_lower(subtract(self, xs), 0), limit)>>
        h3 == IF is_franchise THEN [h1 EXCEPT ![2] = iadd(h1[2], xs)] ELSE h1
        h4 == IF n_loss # <<>>
              THEN Append(h3, groupby_head(sort_index(h3[2]), n_loss[1]))
              ELSE h3
    IN  [self |-> h4[1], out |-> h4[Len(h4)]]

\* The objects of one call are cells of a heap; cell 1 is self._obj and
\* layer_losses names the cell the local variable is bound to.  The result
\* is [self: self._obj when the call returns, out: the value returned].
apply_layer(self, limit, xs, n_loss, is_franchise) ==
    IF ~(xs >= 0) THEN [self |-> self,
                        out |-> Raise("AssertionError", "Lower loss must be >= 0")]
    ELSE
    LET h1 == <<self, clip_upper(clip_lower(subtract(self, xs), 0), limit)>>
        h2 == Append(h1, loc_positive(h1[2]))
        h3 == IF is_franchise THEN [h2 EXCEPT ![3] = iadd(h2[3], xs)] ELSE h2
        h4 == IF n_loss # <<>>
              THEN Append(h3, groupby_head(sort_index(h3[3]), n_loss[1]))
              ELSE h3
    IN  [self |-> h4[1], out |-> h4[Len(h4)]]

(***************************************************************************)
(* YearEventLossTable.to_ylt                                               *)
(***************************************************************************)
RECURSIVE SumLoss(_)
SumLoss(rows) == IF rows = <<>> THEN 0 ELSE Head(rows).Loss + SumLoss(Tail(rows))

MaxLossOf(rows) ==
    CHOOSE m \in {r.Loss : r \in Range(rows)} : \A r \in Range(rows) : m >= r.Loss

\* groupby('Year'): the years present, each with its rows in row order.
YearRows(s, y) ==
    SelectRows(s.rows, {i \in 1..Len(s.rows) : s.rows[i].Year = y})

\* to_ylt as it would be with the two branches exchanged.
to_ylt_swapped(s, is_occurrence) ==
    [kind |-> "Series",
     attrs |-> s.attrs,
     values |-> [y \in {r.Year : r \in Range(s.rows)} |->
                    IF is_occurrence THEN SumLoss(YearRows(s, y))
                    ELSE MaxLossOf(YearRows(s, y))]]

to_ylt(s, is_occurrence) ==
    [kind |-> "Series",
     attrs |-> s.attrs,
     values |-> [y \in {r.Year : r \in Range(s.rows)} |->
                    IF is_occurrence THEN MaxLossOf(YearRows(s, y))
                    ELSE SumLoss(YearRows(s, y))]]

(***************************************************************************)
(* YearEventLossTable.exfreq and to_ef_curve                               *)
(***************************************************************************)
\* Series.rank(ascending=False, method='min'): one more than the number of
\* strictly larger values.
rank_desc_min(rows, i) ==
    1 + Cardinality({j \in 1..Len(rows) : rows[j].Loss > rows[i].Loss})

exfreq(s) ==
    [kind |-> "Series",
     name |-> "ExFreq",
     values |-> [i \in 1..Len(s.rows) |->
                    Rat(rank_desc_min(s.rows, i), n_yrs(s))]]

\* sort_values(by=['Loss', 'ExFreq', 'Year', 'DayOfYear'],
\*             ascending=(False, True, False, False))
EfLess(a, b) ==
    \/ a.Loss > b.Loss
    \/ a.Loss = b.Loss /\ RatLt(a.ExFreq, b.ExFreq)
    \/ a.Loss = b.Loss /\ RatEq(a.ExFreq, b.ExFreq) /\ a.Year > b.Year
    \/ a.Loss = b.Loss /\ RatEq(a.ExFreq, b.ExFreq) /\ a.Year = b.Year
       /\ a.DayOfYear > b.DayOfYear

\* drop(INDEX_NAMES, axis=1).drop_duplicates(): the first of equal rows.
drop_duplicates(rows) ==
    SelectRows(rows, {i \in 1..Len(rows) :
                        \A j \in 1..(i - 1) : rows[j] # rows[i]})

\* pd.concat([loss, exfreq], axis=1).reset_index(): one row per record
\* with its index fields, its loss and its exceedance frequency.
combine(s, ef) ==
    [i \in 1..Len(s.rows) |->
        [Year |-> s.rows[i].Year,
         EventID |-> s.rows[i].EventID,
         DayOfYear |-> s.rows[i].DayOfYear,
         Loss |-> s.rows[i].Loss,
         ExFreq |-> ef[i]]]

sort_values(df) ==
    StableSort(df, {p \in (1..Len(df)) \X (1..Len(df)) :
                      EfLess(df[p[1]], df[p[2]])})

\* drop(INDEX_NAMES, axis=1)
drop_index(df) ==
    [i \in 1..Len(df) |-> [Loss |-> df[i].Loss, ExFreq |-> df[i].ExFreq]]

\* to_ef_curve as it would be without drop_duplicates().
to_ef_curve_nodedup(s, keep_index) ==
    [kind |-> "DataFrame",
     rows |-> IF keep_index
              THEN sort_values(combine(s, exfreq(s).values))
              ELSE drop_index(sort_values(combine(s, exfreq(s).values)))]

to_ef_curve(s, keep_index) ==
    [kind |-> "DataFrame",
     rows |-> IF keep_index
              THEN sort_values(combine(s, exfreq(s).values))
              ELSE drop_duplicates(
                       drop_index(sort_values(combine(s, exfreq(s).values))))]

(***************************************************************************)
(* YearEventLossTable.loss_at_rp                                           *)
(***************************************************************************)
\* numpy.interp(x, xp, fp, left, right) for one x.
\* interp as it would be with left and right exchanged.
interp_swapped(x, xp, fp, left, right) ==
    LET n == Len(xp)
    IN  IF IsNaN(x) THEN NaN
        ELSE IF RatLt(x, xp[1]) THEN right
        ELSE IF RatLt(xp[n], x) THEN left
        ELSE IF RatEq(x, xp[n]) THEN fp[n]
        ELSE LET j == CHOOSE j \in 1..(n - 1) :
                        ~RatLt(x, xp[j]) /\ RatLt(x, xp[j + 1])
                 slope == RatDiv(RatSub(fp[j + 1], fp[j]),
                                 RatSub(xp[j + 1], xp[j]))
             IN  RatAdd(RatMul(slope, RatSub(x, xp[j])), fp[j])

interp(x, xp, fp, left, right) ==
    LET n == Len(xp)
    IN  IF IsNaN(x) THEN NaN
        ELSE IF RatLt(x, xp[1]) THEN left
        ELSE IF RatLt(xp[n], x) THEN right
        ELSE IF RatEq(x, xp[n]) THEN fp[n]
        ELSE LET j == CHOOSE j \in 1..(n - 1) :
                        ~RatLt(x, xp[j]) /\ RatLt(x, xp[j + 1])
                 slope == RatDiv(RatSub(fp[j + 1], fp[j]),
                                 RatSub(xp[j + 1], xp[j]))
             IN  RatAdd(RatMul(slope, RatSub(x, xp[j])), fp[j])

\* return_periods[return_periods <= 0.0] = np.nan; 1 / return_periods
inv_rp(rp) == IF rp <= 0 THEN NaN ELSE Rat(1, rp)

\* The lines of loss_at_rp after the curve is built.
interp_curve(ef_curve, return_periods) ==
    IF ef_curve = <<>>
    THEN Raise("IndexError", "single positional indexer is out-of-bounds")
    ELSE [kind |-> "ndarray",
          values |-> [i \in 1..Len(return_periods) |->
                        interp(inv_rp(return_periods[i]),
                               [k \in 1..Len(ef_curve) |-> ef_curve[k].ExFreq],
                               [k \in 1..Len(ef_curve) |-> Rat(ef_curve[k].Loss, 1)],
                               Rat(ef_curve[1].Loss, 1), Rat(0, 1))]]

loss_at_rp(s, return_periods) ==
    interp_curve(to_ef_curve(s, FALSE).rows, return_periods)

(***************************************************************************)
(* YearEventLossTable.to_ep_summary and to_ep_summaries                    *)
(***************************************************************************)
\* The attributes an attribute lookup on a value can find.
SeriesAttrs == {"rename", "sum", "groupby", "rank", "clip", "subtract",
                "copy", "loc", "sort_index", "divide", "yelt"}

NdarrayAttrs == {"astype", "sum", "shape"}

HasAttr(o, a) ==
    a \in (IF o.kind = "Series" THEN SeriesAttrs
           ELSE IF o.kind = "ndarray" THEN NdarrayAttrs
           ELSE {})

NoAttr(o, a) == Raise("AttributeError", a)

\* The year loss table's own loss_at_rp: the return-period interpolation
\* against the exceedance curve of the per-year losses.
ylt_loss_at_rp(ylt, return_periods) ==
    LET yrs == DOMAIN ylt.values
        ys == [i \in 1..Cardinality(yrs) |->
                 CHOOSE y \in yrs : Cardinality({z \in yrs : z < y}) = i - 1]
    IN  loss_at_rp([attrs |-> ylt.attrs,
                    rows |-> [i \in 1..Len(ys) |->
                                [Year |-> ys[i], EventID |-> 0, DayOfYear |-> 0,
                                 Loss |-> ylt.values[ys[i]]]]],
                   return_periods)

\* pd.Series(losses, index=pd.Index(return_periods, name='ReturnPeriod'),
\*           name='Loss')
summary_series(losses, return_periods) ==
    IF losses.kind = "raise" THEN losses
    ELSE [kind |-> "Series", name |-> "Loss",
          index |-> return_periods, values |-> losses.values]

to_ep_summary(s, return_periods, is_occurrence) ==
    summary_series(ylt_loss_at_rp(to_ylt(s, is_occurrence), return_periods),
                   return_periods)

\* pd.concat(cols, axis=1): the columns side by side on their common index.
concat(cols) ==
    [kind |-> "DataFrame",
     index |-> cols[1].index,
     columns |-> [i \in 1..Len(cols) |-> cols[i].name],
     data |-> [i \in 1..Len(cols) |-> cols[i].values]]

rename(x, name) == [x EXCEPT !.name = name]

\* The lines of to_ep_summaries after aep and oep are computed; eef is what
\* the call of loss_at_rp returns if it is reached.
combine_summaries(aep, oep, eef, is_eef) ==
    IF aep.kind = "raise" THEN aep
    ELSE IF oep.kind = "raise" THEN oep
    ELSE IF ~HasAttr(aep, "rename") THEN NoAttr(aep, "rename")
    ELSE IF ~HasAttr(oep, "renaem") THEN NoAttr(oep, "renaem")
    ELSE IF ~is_eef
    THEN concat(<<rename(aep, "LossPerYear"),
                  rename(oep, "MaxEventLossPerYear")>>)
    ELSE IF eef.kind = "raise" THEN eef
    ELSE IF ~HasAttr(eef, "rename") THEN NoAttr(eef, "rename")
    ELSE concat(<<rename(aep, "LossPerYear"),
                  rename(oep, "MaxEventLossPerYear"),
                  rename(eef, "EventLoss")>>)

to_ep_summaries(s, return_periods, is_eef) ==
    combine_summaries(to_ep_summary(s, return_periods, FALSE),
                      to_ep_summary(s, return_periods, TRUE),
                      loss_at_rp(s, return_periods),
                      is_eef)

(***************************************************************************)
(* Inputs.                                                                 *)
(***************************************************************************)
Losses == (0 - MaxNeg)..MaxLoss

SeqsUpTo(S, n) == UNION {[1..k -> S] : k \in 0..n}

RowsOf(years, days) ==
    [Year : years, EventID : 1..MaxEvent, DayOfYear : days, Loss : Losses]

\* The tables from_cols builds whose years lie in 1..n_yrs.
ValidYelts ==
    UNION {{from_cols(rows, n) :
              rows \in {rs \in SeqsUpTo(RowsOf(1..n, 1..MaxDay), MaxRows) :
                          is_unique(rs)}} : n \in 1..NYrs}

\* Any Series the accessor may be asked for: index levels, dtypes, attrs
\* and keys of every shape, valid or not.
NameChoices ==
    {<<COL_YEAR, COL_EVENT, COL_DAY>>, <<COL_YEAR, COL_DAY, COL_EVENT>>,
     <<COL_YEAR, COL_EVENT>>, <<COL_YEAR, COL_EVENT, "Day">>,
     <<COL_YEAR, COL_EVENT, COL_DAY, "Extra">>}

Candidates ==
    UNION {[kind : {"Series"},
            names : {nm},
            ldtypes : [1..Len(nm) -> {"int64", "float64"}],
            dtype : {"float64", "int64", "object"},
            attrs : {{}} \cup {{<<"n_yrs", n>>} : n \in 1..NYrs},
            rows : SeqsUpTo([Year : 0..(NYrs + 1), EventID : 1..MaxEvent,
                             DayOfYear : {1}, Loss : {MaxLoss}], MaxRows)] :
           nm \in NameChoices}

Optional(S) == {<<>>} \cup {<<v>> : v \in S}

(***************************************************************************)
(* State: cand is the Series handed to the program, obj the _obj of the    *)
(* accessor in use (None while there is none), call the last call and its  *)
(* arguments, ret what it returned or raised, pre the accessor's _obj as   *)
(* it was when that call began.                                            *)
(***************************************************************************)
InitWith(S) ==
    /\ cand \in S
    /\ obj = None
    /\ pre = None
    /\ call = [op |-> "none"]
    /\ ret = None

Init == InitWith(ValidYelts)

InitValidate == InitWith(Candidates)

\* YearEventLossTable.__init__ on the Series p: validate, then wrap.
Wrap(p, of) ==
    LET v == Validate(p)
    IN  /\ call' = [op |-> "__init__", of |-> of]
        /\ ret' = v
        /\ obj' = IF v = None THEN p ELSE obj
        /\ pre' = obj
        /\ UNCHANGED cand

\* cand.yelt
Construct ==
    /\ call.op = "none"
    /\ Wrap(cand, "cand")

\* The accessor of the Series a call returned: apply_layer(...).yelt
Rewrap ==
    /\ call.op = "apply_layer"
    /\ ret.kind = "Series"
    /\ Wrap(ret, "ret")

\* An accessor that has just been made; every call of the model is made on
\* a fresh one (the calls leave _obj as it was, so a second call on the same
\* accessor starts from the same table).
Fresh == call.op = "__init__" /\ ret = None /\ obj # None

ApplyLayer ==
    /\ Fresh
    /\ \E limit \in Optional(0..MaxLimit), xs \in (0 - 1)..MaxXs,
          n_loss \in Optional(0..MaxNLoss), is_franchise \in BOOLEAN :
          LET r == apply_layer(obj, limit, xs, n_loss, is_franchise)
          IN  /\ call' = [op |-> "apply_layer", limit |-> limit, xs |-> xs,
                          n_loss |-> n_loss, is_franchise |-> is_franchise]
              /\ ret' = r.out
              /\ obj' = r.self
              /\ pre' = obj
    /\ UNCHANGED cand

ToYlt ==
    /\ Fresh
    /\ \E is_occurrence \in BOOLEAN :
          /\ call' = [op |-> "to_ylt", is_occurrence |-> is_occurrence]
          /\ ret' = to_ylt(obj, is_occurrence)
    /\ pre' = obj
    /\ UNCHANGED <<cand, obj>>

Exfreq ==
    /\ Fresh
    /\ call' = [op |-> "exfreq"]
    /\ ret' = exfreq(obj)
    /\ pre' = obj
    /\ UNCHANGED <<cand, obj>>

ToEfCurve ==
    /\ Fresh
    /\ \E keep_index \in BOOLEAN :
          /\ call' = [op |-> "to_ef_curve", keep_index |-> keep_index]
          /\ ret' = to_ef_curve(obj, keep_index)
    /\ pre' = obj
    /\ UNCHANGED <<cand, obj>>

ReturnPeriods == SeqsUpTo((0 - 1)..MaxRP, MaxRPs)

LossAtRp ==
    /\ Fresh
    /\ \E return_periods \in ReturnPeriods :
          /\ call' = [op |-> "loss_at_rp", return_periods |-> return_periods]
          /\ ret' = loss_at_rp(obj, return_periods)
    /\ pre' = obj
    /\ UNCHANGED <<cand, obj>>

ToEpSummaries ==
    /\ Fresh
    /\ \E return_periods \in ReturnPeriods, is_eef \in BOOLEAN :
          /\ call' = [op |-> "to_ep_summaries",
                      return_periods |-> return_periods, is_eef |-> is_eef]
          /\ ret' = to_ep_summaries(obj, return_periods, is_eef)
    /\ pre' = obj
    /\ UNCHANGED <<cand, obj>>

Next ==
    \/ Construct
    \/ ToYlt
    \/ Exfreq
    \/ ToEfCurve
    \/ LossAtRp
    \/ ToEpSummaries

Spec == Init /\ [][Next]_vars

NextLayer ==
    \/ Construct
    \/ ApplyLayer
    \/ Rewrap

SpecLayer == Init /\ [][NextLayer]_vars

NextValidate == Construct

SpecValidate == InitValidate /\ [][NextValidate]_vars

(***************************************************************************)
(* Properties.                                                             *)
(***************************************************************************)
Keys(rows) == {Key(r) : r \in Range(rows)}

\* The checks of validation, each on its own.
CheckA(o) == Len(o.names) = 3 /\ Range(o.names) = {"Year", "EventID", "DayOfYear"}

CheckB(o) == \A i \in 1..Len(o.ldtypes) : o.ldtypes[i] = "int64"

CheckC(o) == o.dtype \in {"float64", "int64"}

CheckD(o) == \E p \in o.attrs : p[1] = "n_yrs"

CheckE(o) == Cardinality(Keys(o.rows)) = Len(o.rows)

CheckF(o) == \A r \in Range(o.rows) : 1 <= r.Year /\ r.Year <= n_yrs(o)

FirstViolated(o) ==
    IF ~CheckA(o) THEN "a" ELSE IF ~CheckB(o) THEN "b"
    ELSE IF ~CheckC(o) THEN "c" ELSE IF ~CheckD(o) THEN "d"
    ELSE IF ~CheckE(o) THEN "e" ELSE IF ~CheckF(o) THEN "f" ELSE "none"

\* The check an error names.
ErrCheck(r) ==
    IF r = None THEN "none"
    ELSE CASE r.msg = "Expecting 3 index levels" -> "a"
           [] r.msg = "Expecting index names" -> "a"
           [] r.msg = "Indices must all be integer types" -> "b"
           [] r.msg = "Series should be numeric" -> "c"
           [] r.msg = "Must have 'n_yrs' in the series attrs" -> "d"
           [] r.msg = "Combinations not unique" -> "e"
           [] r.msg = "Years in index are out of range 1,n_yrs" -> "f"
           [] OTHER -> "?"

\* C1: making the accessor of a candidate succeeds if and only if the
\* checks (a) to (f) all hold; otherwise it raises the error of the first
\* violated check in the order (a) to (f), and nothing is wrapped.
C1_Validation ==
    /\ call.op = "__init__" =>
          /\ ErrCheck(ret) = FirstViolated(cand)
          /\ (ret = None) <=> (FirstViolated(cand) = "none")
          /\ (obj # None) <=> (FirstViolated(cand) = "none")
    /\ obj # None => obj = cand /\ FirstViolated(obj) = "none"

\* A candidate with duplicate keys and a year out of range was rejected
\* for its duplicate keys.
C1_Witness ==
    /\ call.op = "__init__"
    /\ CheckD(cand) /\ ~CheckE(cand) /\ ~CheckF(cand)
    /\ ErrCheck(ret) = "e"
    /\ obj = None

\* min(max(loss - xs, 0), limit), without the min when there is no limit.
Layered(loss, xs, limit) ==
    IF limit = <<>> THEN Max2(loss - xs, 0)
    ELSE Min2(Max2(loss - xs, 0), limit[1])

IsLayerCall == call.op = "apply_layer" /\ call.xs >= 0

\* C2: without franchise and without occurrence cap, apply_layer returns
\* exactly the records whose layered loss is positive, each under its key
\* with the layered loss as value; with no limit and xs = 0 these are the
\* records of positive loss, unchanged.
C2_LayerLosses ==
    (IsLayerCall /\ ~call.is_franchise /\ call.n_loss = <<>>) =>
        /\ ret.kind = "Series"
        /\ Range(ret.rows) =
             {[r EXCEPT !.Loss = Layered(r.Loss, call.xs, call.limit)] :
                r \in {q \in Range(pre.rows) :
                         Layered(q.Loss, call.xs, call.limit) > 0}}
        /\ Len(ret.rows) = Cardinality(Range(ret.rows))
        /\ (call.limit = <<>> /\ call.xs = 0) =>
              Range(ret.rows) = {q \in Range(pre.rows) : q.Loss > 0}

\* A layer with xs > 0 and a limit cut one record to the limit and dropped
\* another.
C2_Witness ==
    /\ IsLayerCall /\ ~call.is_franchise /\ call.n_loss = <<>>
    /\ call.xs > 0 /\ call.limit # <<>>
    /\ \E q \in Range(pre.rows) :
          /\ q.Loss - call.xs > call.limit[1]
          /\ [q EXCEPT !.Loss = call.limit[1]] \in Range(ret.rows)
    /\ Len(ret.rows) < Len(pre.rows)

\* The records of year y that survive the layer.
Survivors(y) ==
    {q \in Range(pre.rows) :
        q.Year = y /\ Layered(q.Loss, call.xs, call.limit) > 0}

EventBefore(a, b) ==
    \/ a.DayOfYear < b.DayOfYear
    \/ a.DayOfYear = b.DayOfYear /\ a.EventID < b.EventID

\* C3: with an occurrence cap k, every year of the result holds at most k
\* records, exactly the first k survivors of that year in ascending
\* (year, day_of_year, event_id) order.
C3_OccurrenceCap ==
    (IsLayerCall /\ call.n_loss # <<>>) =>
        /\ ret.kind = "Series"
        /\ \A y \in 1..NYrs :
              LET k == call.n_loss[1]
                  kept == {q \in Range(ret.rows) : q.Year = y}
                  first == {s \in Survivors(y) :
                              Cardinality({u \in Survivors(y) : EventBefore(u, s)}) < k}
              IN  /\ Cardinality({i \in 1..Len(ret.rows) : ret.rows[i].Year = y}) <= k
                  /\ {Key(q) : q \in kept} = {Key(s) : s \in first}

\* A cap of one kept, of two survivors of a year, the one of the earlier
\* day although its event id is the larger.
C3_Witness ==
    /\ IsLayerCall /\ call.n_loss = <<1>>
    /\ \E a, b \in Survivors(1) :
          /\ a.DayOfYear < b.DayOfYear /\ a.EventID > b.EventID
          /\ Key(a) \in Keys(ret.rows)
          /\ Key(b) \notin Keys(ret.rows)

OriginalLoss(q) == (CHOOSE r \in Range(pre.rows) : Key(r) = Key(q)).Loss

\* C4: with is_franchise, a surviving record's output equals its original
\* loss exactly when the original loss is at least xs and the limit did not
\* reduce it, and no output lies between 0 and xs (both ends included).
C4_Franchise ==
    (IsLayerCall /\ call.is_franchise) =>
        /\ ret.kind = "Series"
        /\ \A q \in Range(ret.rows) :
              /\ Key(q) \in Keys(pre.rows)
              /\ (q.Loss = OriginalLoss(q)) <=>
                    (/\ OriginalLoss(q) >= call.xs
                     /\ ~(call.limit # <<>>
                          /\ OriginalLoss(q) - call.xs > call.limit[1]))
              /\ ~(0 <= q.Loss /\ q.Loss <= call.xs)

\* A franchise layer with xs > 0 paid one record in full and another cut
\* by the limit.
C4_Witness ==
    /\ IsLayerCall /\ call.is_franchise /\ call.xs > 0 /\ call.limit # <<>>
    /\ \E q \in Range(ret.rows) : q.Loss = OriginalLoss(q)
    /\ \E q \in Range(ret.rows) : q.Loss < OriginalLoss(q)

\* C8: the result of every apply_layer call in a chain is again a valid
\* table whose keys are a subset of the original keys (unique, years in
\* 1..n_yrs) and whose n_yrs is the original one, and the table the call
\* was applied to is after the call as it was before.
C8_ChainStaysValid ==
    IsLayerCall =>
        /\ ret.kind = "Series"
        /\ Validate(ret) = None
        /\ FirstViolated(ret) = "none"
        /\ Keys(ret.rows) \subseteq Keys(cand.rows)
        /\ Cardinality(Keys(ret.rows)) = Len(ret.rows)
        /\ \A q \in Range(ret.rows) : 1 <= q.Year /\ q.Year <= n_yrs(cand)
        /\ n_yrs(ret) = n_yrs(cand)
        /\ obj = pre

\* A second franchise layer, applied to the result of a first one, changed
\* the losses and left records.
C8_Witness ==
    /\ IsLayerCall /\ call.is_franchise /\ call.xs > 0
    /\ pre # cand
    /\ ret.rows # <<>>
    /\ ret.rows # pre.rows

\* C5: on a non-empty table loss_at_rp returns one value per return period,
\* each computed on its own: NaN for a return period <= 0, the maximum loss
\* for a return period above n_yrs, and 0.0 where 1/rp is above the largest
\* exceedance frequency of the table.
C5_LossAtRpBounds ==
    (call.op = "loss_at_rp" /\ pre.rows # <<>>) =>
        /\ ret.kind = "ndarray"
        /\ Len(ret.values) = Len(call.return_periods)
        /\ \A i \in 1..Len(call.return_periods) :
              LET rp == call.return_periods[i]
                  v == ret.values[i]
                  ef == exfreq(pre).values
              IN  /\ v = loss_at_rp(pre, <<rp>>).values[1]
                  /\ rp <= 0 => IsNaN(v)
                  /\ rp > n_yrs(pre) => v = Rat(MaxLossOf(pre.rows), 1)
                  /\ (rp > 0 /\ \A j \in 1..Len(ef) : RatLt(ef[j], Rat(1, rp)))
                        => v = Rat(0, 1)

\* One call mixed an invalid return period with one above n_yrs and got
\* NaN and the (non-zero) maximum loss.
C5_Witness ==
    /\ call.op = "loss_at_rp" /\ Len(pre.rows) = 2
    /\ Len(call.return_periods) = 2
    /\ call.return_periods[1] <= 0
    /\ call.return_periods[2] > n_yrs(pre)
    /\ IsNaN(ret.values[1])
    /\ ret.values[2] = Rat(MaxLossOf(pre.rows), 1)
    /\ MaxLossOf(pre.rows) > 0

\* The two year loss tables of the table the last to_ylt call was made on:
\* the one the call returned and the other one.
OccYlt == IF call.is_occurrence THEN ret.values ELSE to_ylt(pre, TRUE).values

AggYlt == IF call.is_occurrence THEN to_ylt(pre, FALSE).values ELSE ret.values

YearsPresent == {r.Year : r \in Range(pre.rows)}

\* C6 as stated: for every year with a record the occurrence value is at
\* most the aggregate value, with equality if and only if the year has at
\* most one event; years without records are absent from both.
C6_Original ==
    call.op = "to_ylt" =>
        /\ DOMAIN OccYlt = YearsPresent
        /\ DOMAIN AggYlt = YearsPresent
        /\ \A y \in YearsPresent :
              /\ OccYlt[y] <= AggYlt[y]
              /\ (OccYlt[y] = AggYlt[y]) <=> (Len(YearRows(pre, y)) <= 1)

\* C6 as amended: for every year with a record and no negative loss the
\* occurrence value is at most the aggregate value, with equality if and
\* only if at most one event of the year has a non-zero loss; years without
\* records are absent from both.
C6_Amended ==
    call.op = "to_ylt" =>
        /\ DOMAIN OccYlt = YearsPresent
        /\ DOMAIN AggYlt = YearsPresent
        /\ \A y \in YearsPresent :
              (\A r \in Range(YearRows(pre, y)) : r.Loss >= 0) =>
                 /\ OccYlt[y] <= AggYlt[y]
                 /\ (OccYlt[y] = AggYlt[y]) <=>
                       (Cardinality({r \in Range(YearRows(pre, y)) : r.Loss # 0}) <= 1)

\* A year with two events of positive loss has an occurrence value below
\* its aggregate value, and another year is absent.
C6_Witness ==
    /\ call.op = "to_ylt" /\ call.is_occurrence
    /\ \E y \in YearsPresent :
          /\ Len(YearRows(pre, y)) = 2
          /\ \A r \in Range(YearRows(pre, y)) : r.Loss > 0
          /\ ret.values[y] < AggYlt[y]
    /\ \E y \in 1..n_yrs(pre) : y \notin DOMAIN ret.values

\* C7: to_ep_summaries completes and returns a summary with one row per
\* return period, holding the aggregate-loss-per-year column, the
\* max-event-loss-per-year column and, when is_eef is set, the event-loss
\* column.
C7_SummariesComplete ==
    call.op = "to_ep_summaries" =>
        /\ ret.kind = "DataFrame"
        /\ Len(ret.index) = Len(call.return_periods)
        /\ ret.columns = IF call.is_eef
                          THEN <<"LossPerYear", "MaxEventLossPerYear", "EventLoss">>
                          ELSE <<"LossPerYear", "MaxEventLossPerYear">>

\* C9: the exceedance frequency of every record is the number of records
\* whose loss is greater than or equal to its loss, divided by n_yrs.
C9_ExfreqCountsGreaterOrEqual ==
    call.op = "exfreq" =>
        \A i \in 1..Len(pre.rows) :
            ret.values[i] =
                Rat(Cardinality({j \in 1..Len(pre.rows) :
                                   pre.rows[j].Loss >= pre.rows[i].Loss}),
                    n_yrs(pre))

\* C10: the exceedance-frequency curve of a non-empty table is ordered by
\* loss descending with increasing frequencies: strictly increasing
\* frequencies and strictly decreasing losses when duplicates are
\* collapsed, non-decreasing frequencies when the index is kept; its first
\* row holds the maximum loss.
C10_CurveMonotone ==
    (call.op = "to_ef_curve" /\ pre.rows # <<>>) =>
        LET c == ret.rows
        IN  /\ Len(c) >= 1
            /\ c[1].Loss = MaxLossOf(pre.rows)
            /\ \A i \in 1..(Len(c) - 1) :
                  /\ c[i].Loss >= c[i + 1].Loss
                  /\ ~RatLt(c[i + 1].ExFreq, c[i].ExFreq)
                  /\ ~call.keep_index =>
                        /\ c[i].Loss > c[i + 1].Loss
                        /\ RatLt(c[i].ExFreq, c[i + 1].ExFreq)
            /\ ~call.keep_index =>
                  \A i, j \in 1..Len(c) : i # j => c[i].Loss # c[j].Loss

\* Two records of equal loss collapsed to one curve row.
C10_Witness ==
    /\ call.op = "to_ef_curve" /\ ~call.keep_index
    /\ Len(pre.rows) = 2
    /\ pre.rows[1].Loss = pre.rows[2].Loss
    /\ Len(ret.rows) = 1

====
